---- MODULE Spec2Model ----
(***************************************************************************)
(* GeneralizationAcrossTime (mne/decoding/time_gen.py): the window planner *)
(* _sliding_window, the fold-aware fitter _fit_slices, the prediction      *)
(* engine _predict_time_loop / _predicter, the scorer _scorer and the      *)
(* orchestrator object with its fit / predict / score methods.             *)
(*                                                                         *)
(* Conventions.                                                            *)
(*  - Times are integers counted in ticks; one sampling interval of the    *)
(*    data is Dt ticks, so a requested time can fall between two samples.  *)
(*  - Real numbers that need not be integers (the planner's "freq", the    *)
(*    predictions, the scores) are reduced fractions <<num, den>>.         *)
(*  - A Python dict, and the attribute dict of the orchestrator object,    *)
(*    is a function whose DOMAIN is the set of keys present: "k in d" and  *)
(*    hasattr(self, k) are  k \in DOMAIN d.                                *)
(*  - Python sequences are 0-based; a list is a function on 0..(n-1).      *)
(*  - The source is Python 2 code (np.transpose(zip(...)), func_name):     *)
(*    round() rounds halves away from zero.                                *)
(***************************************************************************)
EXTENDS Integers, Sequences, FiniteSets, TLC

\* ---------------------------------------------------------------- bounds
Dt == 4                 \* ticks per sampling interval of the data
MaxSamples == 4         \* largest number of time samples of a dataset
MaxDur == 6             \* longest step / length (in ticks) a configuration asks for

\* ------------------------------------------------------------ arithmetic
Min(a, b) == IF a <= b THEN a ELSE b

RECURSIVE GCD(_, _)
GCD(a, b) == IF b = 0 THEN a ELSE GCD(b, a % b)

\* the reduced fraction num/den (den > 0, num >= 0)
Rat(num, den) == LET g == GCD(num, den) IN
                 IF g = 0 THEN <<0, 1>> ELSE <<num \div g, den \div g>>

\* int(round(a / b)) for fractions a, b >= 0, b > 0: halves go away from zero
RoundDiv(a, b) == LET num == a[1] * b[2]
                      den == a[2] * b[1]
                  IN  (2 * num + den) \div (2 * den)

\* ------------------------------------------------------- Python sequences
\* a 0-based list of n elements, its elements computed once (the comparison
\* makes TLC store the function instead of re-evaluating it at every use)
List(n, f(_)) == LET l == [i \in 0..(n - 1) |-> f(i)]
                 IN  IF l = << >> THEN << >> ELSE l
PyLen(l) == Cardinality(DOMAIN l)
EmptyList == [i \in {} |-> 0]
PyAppend(l, x) == [i \in 0..PyLen(l) |-> IF i = PyLen(l) THEN x ELSE l[i]]
PyLast(l) == l[PyLen(l) - 1]
\* range(a, b)
PyRange(a, b) == [i \in 0..(b - a - 1) |-> a + i]
\* the elements of a list
Elems(l) == {l[i] : i \in DOMAIN l}

\* a local name: the value x, computed once, under the name Body gives it
With(x, Body(_)) == Body(x)

\* an optional argument: None, or a value
None == << >>
Some(v) == <<v>>
IsNone(a) == Len(a) = 0

\* d[k] = v on a dict
DictSet(d, k, v) == [x \in DOMAIN d \cup {k} |-> IF x = k THEN v ELSE d[x]]
DictDel(d, k) == [x \in DOMAIN d \ {k} |-> d[x]]
EmptyDict == [x \in {} |-> 0]

\* ------------------------------------------------------------- time axis
\* epochs.times of a dataset of n samples starting at t0
TimesOf(t0, n) == [i \in 0..(n - 1) |-> t0 + i * Dt]

\* --------------------------------------------------------------- errors
\* what the tests call a configuration error (assert_raises(ValueError, ...))
ConfigurationError == "ValueError"
\* a bare "raise" with no active exception (line 581): TypeError on Python 2,
\* RuntimeError ("No active exception to reraise") on Python 3
BareRaise == "BareRaise"

VARIABLES
    frame,      \* the activation of _sliding_window that is being run
    gat,        \* the attribute dict of the GeneralizationAcrossTime object
    last        \* the last call made on gat: its arguments and its outcome

vars == <<frame, gat, last>>

\* ------------------------------------------------ _sliding_window (527-594)
WindowKeys == {"start", "stop", "step", "length"}

\* freq = (times[-1] - times[0]) / len(times)
Freq(times) == Rat(PyLast(times) - times[0], PyLen(times))

\* if key not in options: options[key] = value
SetDefault(options, key, value) ==
    IF key \in DOMAIN options THEN options ELSE DictSet(options, key, value)

\* the defaults written into the caller's dict (lines 565-572)
FillDefaults(times, options) ==
    SetDefault(SetDefault(SetDefault(SetDefault(options,
        "start", times[0]), "stop", PyLast(times)),
        "step", Freq(times)), "length", Freq(times))

\* any(times >= t)
FindTimeOk(times, t) == \E i \in DOMAIN times : times[i] >= t

\* a conversion that takes the sample nearest to t (the later one on a tie)
find_time_nearest(times, t) ==
    CHOOSE i \in DOMAIN times :
        \A j \in DOMAIN times :
            \/ (times[i] - t) * (times[i] - t) < (times[j] - t) * (times[j] - t)
            \/ /\ (times[i] - t) * (times[i] - t) = (times[j] - t) * (times[j] - t)
               /\ i >= j

\* np.nonzero(times >= t)[0][0]: the first sample at or after t
find_time(times, t) ==
    CHOOSE i \in DOMAIN times :
        /\ times[i] >= t
        /\ \A j \in DOMAIN times : times[j] >= t => i <= j

\* the call _sliding_window(times, options), before its first statement
PlanCall(times, options) ==
    [pc |-> "entry", times |-> times, options |-> options,
     start |-> 0, stop |-> 0, step |-> 0, length |-> 0,
     time_pick |-> EmptyList, err |-> "none"]

\* lines 558-589: the explicit windows, or the defaults, the conversion to
\* indices and the first window
PlanEntry(f) ==
    IF "slices" \in DOMAIN f.options /\ WindowKeys \subseteq DOMAIN f.options
    THEN [f EXCEPT !.pc = "return", !.time_pick = f.options["slices"]]
    ELSE With(FillDefaults(f.times, f.options), LAMBDA o :
         IF ~FindTimeOk(f.times, o["start"]) \/ ~FindTimeOk(f.times, o["stop"])
         THEN [f EXCEPT !.pc = "raise", !.options = o, !.err = BareRaise]
         ELSE With(find_time(f.times, o["start"]), LAMBDA start :
              With(RoundDiv(o["length"], Freq(f.times)), LAMBDA length :
              [f EXCEPT !.pc = "loop", !.options = o,
                        !.start = start,
                        !.stop = find_time(f.times, o["stop"]),
                        !.step = RoundDiv(o["step"], Freq(f.times)),
                        !.length = length,
                        !.time_pick = List(1, LAMBDA i :
                                           PyRange(start, start + length))])))

\* (time_pick[-1][0] + step) <= (stop - length + 1), line 590;
\* time_pick[-1][0] of an empty window is an IndexError
LoopIndexError(f) == PyLen(PyLast(f.time_pick)) = 0
\* a condition that stops one window early when the last one ends at stop
LoopCondStrict(f) == PyLast(f.time_pick)[0] + f.step < f.stop - f.length + 1
LoopCond(f) == PyLast(f.time_pick)[0] + f.step <= f.stop - f.length + 1

\* lines 590-592: one evaluation of the while condition, and the body
PlanLoop(f) ==
    IF LoopIndexError(f)
    THEN [f EXCEPT !.pc = "raise", !.err = "IndexError"]
    ELSE IF LoopCond(f)
         THEN LET start == PyLast(f.time_pick)[0] + f.step IN
              [f EXCEPT !.start = start,
                        !.time_pick = PyAppend(f.time_pick,
                                               PyRange(start, start + f.length))]
         ELSE [f EXCEPT !.pc = "return"]

\* the whole call: the frame it ends in. With step = 0 and the condition true
\* nothing the condition reads ever changes: the loop does not end.
RECURSIVE PlanRun(_)
PlanRun(f) ==
    IF f.pc \in {"return", "raise", "diverge"} THEN f
    ELSE IF f.pc = "entry" THEN PlanRun(PlanEntry(f))
    ELSE IF ~LoopIndexError(f) /\ LoopCond(f) /\ f.step = 0
         THEN [f EXCEPT !.pc = "diverge"]
         ELSE PlanRun(PlanLoop(f))

_sliding_window(times, options) == PlanRun(PlanCall(times, options))


\* ------------------------------------------- the planner, run step by step
\* a window list a caller writes under 'slices'
ExplicitSlices == List(2, LAMBDA i : PyRange(i, i + 2))

\* the dicts a caller can pass for a time axis: every key is optional; start
\* and stop are times from just before the first sample to just after the last
\* one, step and length are durations (0: shorter than any sampling interval)
OptionChoices(times, key, values) ==
    {EmptyDict} \cup {DictSet(EmptyDict, key, v) : v \in values}
Merge(d, e) == [k \in DOMAIN d \cup DOMAIN e |-> IF k \in DOMAIN e THEN e[k] ELSE d[k]]
TimePoints(times) == (times[0] - 2)..(PyLast(times) + 2)
Durations == {<<k, 1>> : k \in 0..MaxDur}
OptionDicts(times) ==
    {Merge(Merge(Merge(Merge(a, b), c), d), e) :
        a \in OptionChoices(times, "start", TimePoints(times)),
        b \in OptionChoices(times, "stop", TimePoints(times)),
        c \in OptionChoices(times, "step", Durations),
        d \in OptionChoices(times, "length", Durations),
        e \in OptionChoices(times, "slices", {ExplicitSlices})}

\* the longest window list the step-by-step run builds (a run that ends builds
\* at most one window per sample)
MaxPick == MaxSamples + 2

NoObject == EmptyDict

InitPlan ==
    /\ \E n \in 2..MaxSamples, t0 \in {0 - Dt, 0} :
         \E o \in OptionDicts(TimesOf(t0, n)) :
            frame = PlanCall(TimesOf(t0, n), o)
    /\ gat = NoObject
    /\ last = NoObject

SlidingWindowEntry ==
    /\ frame.pc = "entry"
    /\ frame' = PlanEntry(frame)
    /\ UNCHANGED <<gat, last>>

SlidingWindowLoop ==
    /\ frame.pc = "loop"
    /\ PyLen(frame.time_pick) < MaxPick
    /\ frame' = PlanLoop(frame)
    /\ UNCHANGED <<gat, last>>

NextPlan == SlidingWindowEntry \/ SlidingWindowLoop

SpecPlan == InitPlan /\ [][NextPlan]_vars

\* ---- properties of the planner
\* the windows are computed from start, stop, step and length
Planned(f) == f.pc # "entry" /\ "slices" \notin DOMAIN f.options
\* t lies within the time range of the data
InRange(times, t) == times[0] <= t /\ t <= PyLast(times)

\* C7: whenever the planner returns a window sequence, every window lies
\* within the samples of the data: 0 <= start and start + length <= n_samples
C7_WindowsInBounds ==
    (Planned(frame) /\ frame.pc = "return") =>
        \A w \in DOMAIN frame.time_pick :
            /\ PyLen(frame.time_pick[w]) = frame.length
            /\ Elems(frame.time_pick[w]) \subseteq DOMAIN frame.times

\* the configured step or length is shorter than half a sample: it rounds to
\* zero indices (the start and stop times themselves can be converted)
Degenerate(f) ==
    /\ Planned(f)
    /\ FindTimeOk(f.times, f.options["start"])
    /\ FindTimeOk(f.times, f.options["stop"])
    /\ \/ RoundDiv(f.options["step"], Freq(f.times)) = 0
       \/ RoundDiv(f.options["length"], Freq(f.times)) = 0

\* C9: a configuration whose step or length rounds to zero samples ends in
\* a configuration error: it returns no windows, it raises nothing else, and
\* the loop adds no window to the first one
C9_DegenerateRejected ==
    Degenerate(frame) =>
        /\ frame.pc # "return"
        /\ frame.pc = "raise" => frame.err = ConfigurationError
        /\ PyLen(frame.time_pick) <= 1

\* the index of the first sample at or after t, and of the sample nearest to
\* t, on a time axis of step Dt
CeilIndex(times, t) == (t - times[0] + Dt - 1) \div Dt
RoundIndex(times, t) == (2 * (t - times[0]) + Dt) \div (2 * Dt)
\* the call has converted its times and built its first window
Converted(f) == Planned(f) /\ f.pc = "loop" /\ PyLen(f.time_pick) = 1

Intervals(times, d, k) ==
    d = <<k * Dt, 1>> /\ 1 <= k /\ k <= PyLen(times) - 1

\* C26: a step or a length of k sampling intervals becomes k sample indices,
\* and the default step and length become one sample
C26_UnitConversion ==
    (Planned(frame) /\ frame.pc \in {"loop", "return"}) =>
        /\ \A k \in 1..MaxSamples :
            /\ Intervals(frame.times, frame.options["step"], k) => frame.step = k
            /\ Intervals(frame.times, frame.options["length"], k) =>
                   frame.length = k
        /\ frame.options["step"] = Freq(frame.times) => frame.step = 1
        /\ frame.options["length"] = Freq(frame.times) => frame.length = 1

\* the part of C26 about the defaults alone
C26_DefaultsOneSample ==
    (Planned(frame) /\ frame.pc \in {"loop", "return"}) =>
        /\ frame.options["step"] = Freq(frame.times) => frame.step = 1
        /\ frame.options["length"] = Freq(frame.times) => frame.length = 1

\* the index values the loop works on: the first start, and the number of
\* the last window that fits before stop
FirstStart(f) == find_time(f.times, f.options["start"])
LastK(f) == (f.stop - f.length + 1 - FirstStart(f)) \div f.step
\* step >= 1, length >= 1 and start <= stop - length + 1
Regular(f) ==
    /\ Planned(f) /\ f.pc \in {"loop", "return"}
    /\ f.step >= 1 /\ f.length >= 1
    /\ FirstStart(f) <= f.stop - f.length + 1
\* the windows [start + k * step, start + k * step + length), k = 0 .. n - 1
WindowsUpTo(f, n) ==
    List(n, LAMBDA k : PyRange(FirstStart(f) + k * f.step,
                               FirstStart(f) + k * f.step + f.length))

\* C27: on regular index values the loop builds the windows in increasing
\* order of k, never more than LastK + 1 of them (so it ends), and returns
\* exactly the windows k = 0 .. LastK; with the default configuration this
\* is one window of one sample per sample
C27_WindowSequence ==
    /\ Regular(frame) =>
        /\ PyLen(frame.time_pick) <= LastK(frame) + 1
        /\ LastK(frame) + 1 < MaxPick
        /\ frame.time_pick = WindowsUpTo(frame, PyLen(frame.time_pick))
        /\ frame.pc = "return" =>
               frame.time_pick = WindowsUpTo(frame, LastK(frame) + 1)
    /\ (/\ frame.pc = "return"
        /\ frame.options = FillDefaults(frame.times, EmptyDict)) =>
           frame.time_pick =
               List(PyLen(frame.times), LAMBDA i : PyRange(i, i + 1))

\* a returned sequence of several windows of several samples, more than one
\* sample apart
C27_Witness ==
    /\ Regular(frame) /\ frame.pc = "return"
    /\ frame.step >= 2 /\ frame.length >= 2
    /\ PyLen(frame.time_pick) >= 2
    /\ PyLast(PyLast(frame.time_pick)) = frame.stop

NTrials == 4            \* trials of every dataset

\* Sum and sorted list of a finite set of integers
RECURSIVE SetSum(_)
SetSum(S) == IF S = {} THEN 0 ELSE LET x == CHOOSE x \in S : TRUE IN x + SetSum(S \ {x})
SetMin(S) == CHOOSE x \in S : \A y \in S : x <= y
SetMax(S) == CHOOSE x \in S : \A y \in S : x >= y
RECURSIVE SortedList(_)
SortedList(S) ==
    IF S = {} THEN EmptyList
    ELSE LET m == SetMax(S) IN PyAppend(SortedList(S \ {m}), m)
\* fractions added, divided by an integer, and a list of them summed
RatAdd(a, b) == Rat(a[1] * b[2] + b[1] * a[2], a[2] * b[2])
RatOver(a, n) == Rat(a[1], a[2] * n)
RECURSIVE RatSum(_)
RatSum(l) ==
    IF PyLen(l) = 0 THEN <<0, 1>>
    ELSE RatAdd(RatSum([i \in 0..(PyLen(l) - 2) |-> l[i]]), PyLast(l))

\* an Epochs object: its time axis, and events[:, 2], the label of each trial
Epochs(id, t0, n, events) ==
    [id |-> id, times |-> TimesOf(t0, n), events |-> events]
EpochsA == Epochs(0, 0 - Dt, 3, List(NTrials, LAMBDA i : 1 + 2 * (i % 2)))
EpochsB == Epochs(1, 0, 2, List(NTrials, LAMBDA i : 1 + 2 * ((i + 1) % 2)))
\* other data on the time axis of EpochsA
EpochsC == Epochs(2, 0 - Dt, 3, List(NTrials, LAMBDA i : 1 + 2 * ((i + 1) % 2)))

\* epochs.get_data()[i, picks, cols]: what a classifier sees of trial i
Sample(epochs, i, cols) == [data |-> epochs.id, trial |-> i, cols |-> cols]

\* _format_data (445-474): y defaults to the events; X is the data itself
_format_data(epochs, y) ==
    [X |-> epochs, y |-> IF IsNone(y) THEN epochs.events ELSE y[1]]

\* a fold: the train indices and the test indices, both in increasing order
Fold(train, test) == [train |-> SortedList(train), test |-> SortedList(test)]
Trials == 0..(NTrials - 1)
\* leave-one-out: every trial is the test set of exactly one fold
CvLeaveOneOut == List(NTrials, LAMBDA k : Fold(Trials \ {k}, {k}))
\* two folds that test the first and the second half of the trials
CvTwoFold == List(2, LAMBDA k : Fold({i \in Trials : (2 * i) \div NTrials # k},
                                     {i \in Trials : (2 * i) \div NTrials = k}))
\* folds that leave the last trial in no test set
CvUncovered == List(NTrials - 1, LAMBDA k : Fold(Trials \ {k}, {k}))
\* three folds whose test sets partition the trials unequally: one trial, one
\* trial, and the rest
CvUnequal == List(3, LAMBDA k : IF k < 2 THEN Fold(Trials \ {k}, {k})
                                ELSE Fold({0, 1}, Trials \ {0, 1}))
\* the two folds of CvTwoFold, the second one with no train index
CvEmptyTrain == List(2, LAMBDA k : IF k = 0 THEN CvTwoFold[0]
                                   ELSE Fold({}, Elems(CvTwoFold[1].test)))
\* the two folds of CvTwoFold, the second one with no test index
CvEmptyTest == List(2, LAMBDA k : IF k = 0 THEN CvTwoFold[0]
                                  ELSE Fold(Elems(CvTwoFold[1].train), {}))
\* StratifiedKFold(y, k) and check_cv, the splitter of sklearn: fold j tests
\* the j-th block of trials
Splitter(y, k) ==
    List(k, LAMBDA j : Fold({i \in DOMAIN y : (k * i) \div PyLen(y) # j},
                            {i \in DOMAIN y : (k * i) \div PyLen(y) = j}))
TestSet(fold) == Elems(fold.test)
\* every trial is in the test set of exactly one fold
IsPartition(cv) ==
    \A i \in Trials : Cardinality({k \in DOMAIN cv : i \in TestSet(cv[k])}) = 1
Covered(cv) == UNION {TestSet(cv[k]) : k \in DOMAIN cv}

\* ------------------------------------------------ the estimator (sklearn)
\* A fitted classifier is the clone of a template together with what it was
\* fitted on. What it predicts is decided outside this code: a fixed function
\* of the fitted instance and of the sample, one such function per template.
Fitted(template, data, cols, train, y) ==
    [template |-> template, data |-> data, cols |-> cols, train |-> train,
     classes |-> SortedList({y[i] : i \in Elems(train)})]

Mix(clf, x) ==
    clf.template + clf.data + clf.cols[0] * (x.cols[0] + 1)
    + SetSum(Elems(clf.train)) + (x.trial * (x.trial + 1)) \div 2
    + x.cols[0] + x.data * (1 + x.trial)

\* clf.predict(X): one label per sample
ClfPredict(clf, x) == <<clf.classes[Mix(clf, x) % PyLen(clf.classes)], 1>>
\* clf.predict_proba(X): one column per class
ClfProba(clf, x) ==
    List(PyLen(clf.classes), LAMBDA c : Rat((Mix(clf, x) + 2 * c) % 5, 4))
\* clf.decision_function(X): one column per pair of classes
NPairs(n) == (n * (n - 1)) \div 2
ClfDistance(clf, x) ==
    List(NPairs(PyLen(clf.classes)), LAMBDA c : Rat((Mix(clf, x) + c) % 7, 2))

PredictTypes == {"predict", "proba", "distance"}
ClfOutput(clf, x, predict_type) ==
    IF predict_type = "predict" THEN List(1, LAMBDA c : ClfPredict(clf, x))
    ELSE IF predict_type = "proba" THEN ClfProba(clf, x)
    ELSE ClfDistance(clf, x)


\* ---------------------------------------------------- _predicter (597-661)
Raise(e) == [err |-> e, ncol |-> 0, val |-> EmptyList]
Return(ncol, val) == [err |-> "none", ncol |-> ncol, val |-> val]

RatLess(a, b) == a[1] * b[2] < b[1] * a[2]
\* scipy.stats.mode: the most frequent value, the smallest one on a tie
Mode(l) ==
    LET count(v) == Cardinality({i \in DOMAIN l : l[i] = v})
        best == {v \in Elems(l) : \A w \in Elems(l) : count(w) <= count(v)}
    IN  CHOOSE v \in best : \A w \in best : ~RatLess(w, v)
\* np.mean
Mean(l) == RatOver(RatSum(l), PyLen(l))

\* y_pred[i, c, fold] for every fold, then the collapse across folds
Collapse(stack, n_trial, n_class, n_clf, predict_type) ==
    IF n_clf > 1
    THEN IF predict_type = "predict"
         THEN Return(1, List(n_trial, LAMBDA i : List(1, LAMBDA c :
                        Mode(List(n_clf, LAMBDA k : stack[i][0][k])))))
         ELSE \* the mean is 2-d (n_trial, n_class): y_pred[:, 1, :] of line 656
              \* has one index too many
              IF n_class = 2 THEN Raise("IndexError")
              ELSE Return(n_class, List(n_trial, LAMBDA i : List(n_class, LAMBDA c :
                        Mean(List(n_clf, LAMBDA k : stack[i][c][k])))))
    ELSE IF predict_type # "predict" /\ n_class = 2
         THEN Return(1, List(n_trial, LAMBDA i : List(1, LAMBDA c : stack[i][1][0])))
         ELSE Return(n_class, List(n_trial, LAMBDA i : List(n_class, LAMBDA c :
                        stack[i][c][0])))

_predicter(X, estimators, predict_type) ==
    IF predict_type \notin PredictTypes THEN Raise("UnboundLocalError")
    ELSE IF predict_type # "predict" /\ PyLen(X) = 0 THEN Raise("IndexError")
    ELSE IF \E k \in DOMAIN estimators, i \in DOMAIN X :
                PyLen(X[i].cols) # PyLen(estimators[k].cols)
    THEN \* a classifier takes only samples of the width it was fitted on
         Raise("ValueError")
    ELSE
    With(PyLen(X), LAMBDA n_trial :
    With(PyLen(estimators), LAMBDA n_clf :
    With(List(n_clf, LAMBDA k : List(n_trial, LAMBDA i :
              ClfOutput(estimators[k], X[i], predict_type))), LAMBDA outs :
    With(IF predict_type = "predict" THEN 1 ELSE PyLen(outs[0][0]), LAMBDA n_class :
        IF \E k \in DOMAIN estimators, i \in DOMAIN X : PyLen(outs[k][i]) # n_class
        THEN Raise("ValueError")
        ELSE Collapse(List(n_trial, LAMBDA i : List(n_class, LAMBDA c :
                         List(n_clf, LAMBDA k : outs[k][i][c]))),
                      n_trial, n_class, n_clf, predict_type)))))

\* -------------------------------------------- _predict_time_loop (344-402)
\* the folds whose test set holds trial i; the last one writes last
FoldsOf(cv, i) == {k \in DOMAIN cv : i \in TestSet(cv[k])}

\* matched mode where every fold's test trials are predicted by the first
\* fold's classifier
MatchedWindowFirstFold(X, estimator, cv, indices, predict_type, garbage) ==
    With(List(PyLen(cv), LAMBDA k :
              _predicter(List(PyLen(cv[k].test),
                              LAMBDA j : Sample(X, cv[k].test[j], indices)),
                         List(1, LAMBDA z : estimator[0]), predict_type)),
         LAMBDA part :
        Return(part[0].ncol, List(PyLen(X.events), LAMBDA i :
            IF FoldsOf(cv, i) = {} THEN List(part[0].ncol, LAMBDA c : garbage)
            ELSE With(SetMax(FoldsOf(cv, i)), LAMBDA k :
                      part[k].val[CHOOSE j \in DOMAIN cv[k].test :
                                      cv[k].test[j] = i]))))

\* matched mode, one test window: fold k predicts its own test trials with
\* estimator[k] and writes them into the array that fold 0 allocated with
\* np.empty; a row no fold writes keeps what np.empty found in memory
MatchedWindow(X, estimator, cv, indices, predict_type, garbage) ==
    With(List(PyLen(cv), LAMBDA k :
              _predicter(List(PyLen(cv[k].test),
                              LAMBDA j : Sample(X, cv[k].test[j], indices)),
                         List(1, LAMBDA z : estimator[k]), predict_type)),
         LAMBDA part :
    With({k \in DOMAIN cv : part[k].err # "none"}, LAMBDA failed :
        IF failed # {} THEN Raise(part[SetMin(failed)].err)
        ELSE IF \E k \in DOMAIN cv : part[k].ncol # part[0].ncol
             THEN Raise("ValueError")
        ELSE Return(part[0].ncol, List(PyLen(X.events), LAMBDA i :
                 IF FoldsOf(cv, i) = {} THEN List(part[0].ncol, LAMBDA c : garbage)
                 ELSE With(SetMax(FoldsOf(cv, i)), LAMBDA k :
                           part[k].val[CHOOSE j \in DOMAIN cv[k].test :
                                           cv[k].test[j] = i])))))

\* independent mode, one test window: every fold's classifier predicts every
\* trial
IndependentWindow(X, estimator, indices, predict_type) ==
    _predicter(List(PyLen(X.events), LAMBDA i : Sample(X, i, indices)),
               estimator, predict_type)

_predict_time_loop(X, estimator, cv, slices, independent, predict_type, garbage) ==
    With(List(PyLen(slices), LAMBDA t :
              IF ~independent
              THEN MatchedWindow(X, estimator, cv, slices[t], predict_type, garbage)
              ELSE IndependentWindow(X, estimator, slices[t], predict_type)),
         LAMBDA cell :
    With({t \in DOMAIN slices : cell[t].err # "none"}, LAMBDA failed :
        IF failed # {} THEN Raise(cell[SetMin(failed)].err)
        ELSE Return(PyLen(slices), List(PyLen(slices), LAMBDA t : cell[t].val))))


\* ------------------------------------------------------- _scorer (405-442)
\* y == c as 0/1 flags
Flags(y, c) == [i \in DOMAIN y |-> IF y[i] = c THEN 1 ELSE 0]
Column(y_pred, ii) == [i \in DOMAIN y_pred |-> y_pred[i][ii]]

\* sklearn.metrics.zero_one_loss: the fraction of trials not predicted exactly
zero_one_loss(y, col) ==
    [err |-> "none",
     val |-> Rat(Cardinality({i \in DOMAIN y : col[i] # <<y[i], 1>>}), PyLen(y))]

\* sklearn.metrics.accuracy_score: the fraction of trials predicted exactly
accuracy_score(y, col) ==
    [err |-> "none",
     val |-> Rat(Cardinality({i \in DOMAIN y : col[i] = <<y[i], 1>>}), PyLen(y))]

\* sklearn.metrics.roc_auc_score on 0/1 truth flags: the fraction of
\* (positive, negative) pairs ranked in order, a tie counting for a half;
\* a ValueError when only one class is present
roc_auc_score(flags, col) ==
    LET pos == {i \in DOMAIN flags : flags[i] = 1}
        neg == {i \in DOMAIN flags : flags[i] = 0}
        won == Cardinality({pq \in pos \X neg : RatLess(col[pq[2]], col[pq[1]])})
        tie == Cardinality({pq \in pos \X neg : col[pq[1]] = col[pq[2]]})
    IN  IF pos = {} \/ neg = {} THEN [err |-> "ValueError", val |-> <<0, 1>>]
        ELSE [err |-> "none",
              val |-> Rat(2 * won + tie, 2 * Cardinality(pos) * Cardinality(neg))]

ApplyScorer(scorer, y, col) ==
    IF scorer = "accuracy_score" THEN accuracy_score(y, col)
    ELSE roc_auc_score(y, col)

_scorer(y, y_pred, scorer) ==
    With(SortedList(Elems(y)), LAMBDA classes :
    With(PyLen(y_pred[0]), LAMBDA ncol :
        IF ncol = 1
        THEN \* scorer(y, y_pred), and on any exception scorer(y == max(classes),
             \* y_pred): roc_auc_score takes the labels only as flags
             ApplyScorer(scorer,
                         IF scorer = "accuracy_score" THEN y
                         ELSE Flags(y, PyLast(classes)),
                         Column(y_pred, 0))
        ELSE IF PyLen(classes) > ncol THEN [err |-> "IndexError", val |-> <<0, 1>>]
        ELSE With(List(PyLen(classes), LAMBDA ii :
                       ApplyScorer(scorer, Flags(y, classes[ii]),
                                   Column(y_pred, ii))), LAMBDA one :
                 IF \E ii \in DOMAIN classes : one[ii].err # "none"
                 THEN [err |-> "ValueError", val |-> <<0, 1>>]
                 ELSE [err |-> "none",
                       val |-> RatOver(RatSum(List(PyLen(classes),
                                                   LAMBDA ii : one[ii].val)),
                                       PyLen(classes))])))

\* --------------------------------------------------- _fit_slices (477-524)
\* t_slice[t_slice == values[ii]] = indices[ii], for ii = from, from + 1, ...
RECURSIVE Translate(_, _, _)
Translate(t_slice, values, ii) ==
    IF ii >= PyLen(values) THEN t_slice
    ELSE Translate([j \in DOMAIN t_slice |->
                        IF t_slice[j] = values[ii] THEN ii ELSE t_slice[j]],
                   values, ii + 1)

\* np.unique(np.concatenate(slices))
UniqueConcat(slices) ==
    SortedList(UNION {Elems(slices[t]) : t \in DOMAIN slices})

\* one chunk of training windows: a grid row per window, a classifier per fold.
\* Xchunk holds the columns `values` of the data; a classifier cannot be fitted
\* on no trial at all: clf_.fit raises in the first window, at the first fold
\* that has no train index, after the folds before it have been fitted.
\* nfit counts the calls of clf_.fit that returned
_fit_slices(clf, X, y, slices, cv) ==
    With(UniqueConcat(slices), LAMBDA values :
        IF \E k \in DOMAIN cv : PyLen(cv[k].train) = 0
        THEN [err |-> "ValueError", val |-> EmptyList,
              nfit |-> SetMin({k \in DOMAIN cv : PyLen(cv[k].train) = 0})]
        ELSE [err |-> "none", nfit |-> PyLen(slices) * PyLen(cv),
              val |-> List(PyLen(slices), LAMBDA t :
                        With(Translate(slices[t], values, 0), LAMBDA rel :
                        List(PyLen(cv), LAMBDA fold :
                          Fitted(clf, X.id, [j \in DOMAIN rel |-> values[rel[j]]],
                                 cv[fold].train, y))))])

\* np.array_split(slices, n_chunk): chunk j, as a list of windows
ArraySplit(slices, n_chunk, j) ==
    LET total == PyLen(slices)
        each == total \div n_chunk
        extras == total % n_chunk
        first == j * each + Min(j, extras)
        size == each + (IF j < extras THEN 1 ELSE 0)
    IN  List(size, LAMBDA i : slices[first + i])

\* the lists of a list of lists, one after the other
RECURSIVE Unpack(_, _)
Unpack(packed, n) ==
    IF n = 0 THEN EmptyList
    ELSE LET head == Unpack(packed, n - 1)
             tail == packed[n - 1]
         IN  [i \in 0..(PyLen(head) + PyLen(tail) - 1) |->
                 IF i < PyLen(head) THEN head[i] ELSE tail[i - PyLen(head)]]


\* ------------------------------------------------ the orchestrator object
\* the outcome of a method call: the attributes it leaves, the exception it
\* raises ("none": it returns; "hang": it never returns), what it returns, the
\* number of classifiers it has fitted and the warnings it has emitted (no
\* statement of fit, predict or score emits one)
Outcome(g, raised, ret) ==
    [gat |-> g, raised |-> raised, ret |-> ret, nfit |-> 0, warnings |-> {}]

\* __init__ (66-87); cv is an int or a list of folds
IntCv(k) == [int |-> TRUE, k |-> k, folds |-> EmptyList]
FoldsCv(folds) == [int |-> FALSE, k |-> 0, folds |-> folds]
Construct(cv, clf, train_times) ==
    [a \in {"cv", "clf", "train_times"} |->
        IF a = "cv" THEN cv ELSE IF a = "clf" THEN clf ELSE train_times]

\* epochs.times[[t[-1] for t in slices]]: the last index of a window must exist
LastIndexError(times, slices) ==
    \E t \in DOMAIN slices :
        \/ PyLen(slices[t]) = 0
        \/ PyLast(slices[t]) \notin DOMAIN times

\* fit (89-153)
fit(g, epochs, y, n_jobs) ==
    With(_format_data(epochs, y), LAMBDA data :
    With(IF g["cv"].int THEN Splitter(data.y, g["cv"].k) ELSE g["cv"].folds,
         LAMBDA cv :
    With(DictSet(DictSet(g, "y_train", data.y), "cv", FoldsCv(cv)), LAMBDA g1 :
    With(_sliding_window(epochs.times, g1["train_times"]), LAMBDA plan :
    With(plan.time_pick, LAMBDA slices :
    With(DictSet(plan.options, "slices", slices), LAMBDA train_times :
        IF plan.pc = "raise"
        THEN Outcome(DictSet(g1, "train_times", plan.options), plan.err, "None")
        ELSE IF plan.pc = "diverge"
        THEN Outcome(DictSet(g1, "train_times", plan.options), "hang", "None")
        ELSE IF LastIndexError(epochs.times, slices)
        THEN Outcome(DictSet(g1, "train_times", train_times), "IndexError", "None")
        ELSE
    With(DictSet(g1, "train_times",
                 DictSet(train_times, "s",
                         List(PyLen(slices),
                              LAMBDA t : epochs.times[PyLast(slices[t])]))),
         LAMBDA g2 :
    With(List(n_jobs, LAMBDA j : ArraySplit(slices, n_jobs, j)), LAMBDA chunk :
        IF \E j \in DOMAIN chunk : PyLen(chunk[j]) = 0
        THEN \* np.concatenate of an empty chunk
             Outcome(g2, "ValueError", "None")
        ELSE
    With(List(n_jobs, LAMBDA j :
              _fit_slices(g["clf"], data.X, data.y, chunk[j], cv)), LAMBDA packed :
    With({j \in DOMAIN packed : packed[j].err # "none"}, LAMBDA failed :
        IF failed # {}
        THEN [Outcome(g2, packed[SetMin(failed)].err, "None")
                 EXCEPT !.nfit = packed[SetMin(failed)].nfit]
        ELSE [Outcome(DictSet(g2, "estimators",
                              Unpack(List(n_jobs, LAMBDA j : packed[j].val), n_jobs)),
                      "none", "None")
                 EXCEPT !.nfit = PyLen(slices) * PyLen(cv)]))))))))))

\* the test_times argument of predict and score: None, a string or a dict
TestNone == [kind |-> "None", str |-> "", dict |-> EmptyDict]
TestStr(str) == [kind |-> "str", str |-> str, dict |-> EmptyDict]
TestDict(dict) == [kind |-> "dict", str |-> "", dict |-> dict]

\* a diagonal setting that tests every training window on the first one
TestTimesDictFirst(g, test_times) ==
    IF test_times.kind = "str"
    THEN DictSet(EmptyDict, "slices",
                 List(PyLen(g["train_times"]["slices"]),
                      LAMBDA t : List(1, LAMBDA z : g["train_times"]["slices"][0])))
    ELSE test_times.dict

\* lines 214-219: the dict the rest of predict works on
TestTimesDict(g, test_times) ==
    IF test_times.kind = "str"
    THEN DictSet(EmptyDict, "slices",
                 List(PyLen(g["train_times"]["slices"]),
                      LAMBDA t : List(1, LAMBDA z : g["train_times"]["slices"][t])))
    ELSE test_times.dict

\* np.transpose(zip(*packed), (1, 0, 2, 3)): zip stops at the shortest row
ZipTranspose(packed) ==
    LET n_test == SetMin({PyLen(packed[t]) : t \in DOMAIN packed})
    IN  List(PyLen(packed), LAMBDA t_train :
             List(n_test, LAMBDA t : packed[t_train][t]))

\* predict (155-255)
predict(g, epochs, independent, test_times, predict_type, garbage) ==
    IF "estimators" \notin DOMAIN g
    THEN Outcome(g, "AssertionError", "None")
    ELSE
    With(_format_data(epochs, None), LAMBDA data :
    With(DictSet(DictSet(DictSet(g, "independent", independent),
                         "y_true", IF ~independent THEN g["y_train"] ELSE data.y),
                 "predict_type", predict_type), LAMBDA g1 :
        IF test_times.kind = "str" /\ test_times.str # "diagonal"
        THEN \* test_times['slices_'] = [] on a str
             Outcome(g1, "TypeError", "None")
        ELSE
    With(TestTimesDict(g, test_times), LAMBDA given :
    \* lines 220-231: one window list per training window, each planned
    \* from the same dict with the training length
    With(IF "slices" \in DOMAIN given THEN PlanCall(epochs.times, given)
         ELSE _sliding_window(epochs.times,
                              DictSet(DictSet(given, "slices_", EmptyList),
                                      "length", g["train_times"]["length"])),
         LAMBDA plan :
        IF plan.pc = "raise" THEN Outcome(g1, plan.err, "None")
        ELSE IF plan.pc = "diverge" THEN Outcome(g1, "hang", "None")
        ELSE
    With(IF "slices" \in DOMAIN given THEN given
         ELSE DictDel(DictSet(plan.options, "slices",
                              List(PyLen(g["train_times"]["slices"]),
                                   LAMBDA t : plan.time_pick)),
                      "slices_"), LAMBDA tt :
    With(tt["slices"], LAMBDA slices :
        IF \E t \in DOMAIN slices : LastIndexError(epochs.times, slices[t])
        THEN Outcome(g1, "IndexError", "None")
        ELSE
    With(DictSet(DictSet(g1, "test_times",
                         DictSet(tt, "s", List(PyLen(slices), LAMBDA t_train :
                             List(PyLen(slices[t_train]), LAMBDA t :
                                 epochs.times[PyLast(slices[t_train][t])])))),
                 "y_pred", List(PyLen(slices), LAMBDA t : EmptyList)), LAMBDA g2 :
        IF PyLen(slices) > PyLen(g["estimators"])
        THEN Outcome(g2, "IndexError", "None")
        ELSE
    With(List(PyLen(slices), LAMBDA t_train :
              _predict_time_loop(data.X, g["estimators"][t_train],
                                 g["cv"].folds, slices[t_train],
                                 independent, predict_type, garbage)),
         LAMBDA packed :
    With({t \in DOMAIN slices : packed[t].err # "none"}, LAMBDA failed :
        IF failed # {} THEN Outcome(g2, packed[SetMin(failed)].err, "None")
        ELSE IF \E t \in DOMAIN slices : PyLen(slices[t]) = 0
        THEN \* np.transpose of an empty zip
             Outcome(g2, "ValueError", "None")
        ELSE Outcome(DictSet(g2, "y_pred",
                             ZipTranspose(List(PyLen(slices),
                                               LAMBDA t : packed[t].val))),
                     "none", "None"))))))))))


\* what score does once predict has returned (lines 318-341)
ScorePredicted(p, y, scorer) ==
    With(IF IsNone(y) THEN p["y_true"] ELSE y[1], LAMBDA y_true :
    With(IF ~IsNone(scorer) THEN scorer[1]
         ELSE IF p["predict_type"] = "predict" THEN "accuracy_score"
         ELSE "roc_auc_score", LAMBDA fn :
    With(DictSet(DictSet(p, "y_true", y_true), "scorer", fn), LAMBDA g1 :
    With(g1["test_times"]["slices"], LAMBDA slices :
        IF \E a \in DOMAIN slices : PyLen(slices[a]) > PyLen(g1["y_pred"][a])
        THEN Outcome(g1, "IndexError", "None")
        ELSE
    With(List(PyLen(slices), LAMBDA t_train :
              List(PyLen(slices[t_train]), LAMBDA t :
                   _scorer(y_true, g1["y_pred"][t_train][t], fn))), LAMBDA cell :
    With(UNION {{<<a, b>> : b \in {b \in DOMAIN cell[a] : cell[a][b].err # "none"}} :
                a \in DOMAIN cell}, LAMBDA bad :
        IF bad # {}
        THEN With(CHOOSE tt \in bad : TRUE, LAMBDA tt :
                  Outcome(g1, cell[tt[1]][tt[2]].err, "None"))
        ELSE Outcome(DictSet(g1, "scores",
                             List(PyLen(slices), LAMBDA t_train :
                                 List(PyLen(slices[t_train]), LAMBDA t :
                                     cell[t_train][t].val))),
                     "none", "None")))))))

\* score (257-341); epochs is a required argument: a call without it does not
\* get past the binding of its arguments
score(g, epochs, y, scorer, independent, test_times, predict_type, garbage) ==
    IF IsNone(epochs) THEN Outcome(g, "TypeError", "None")
    ELSE With(predict(g, epochs[1], independent, test_times, predict_type, garbage),
              LAMBDA ran :
              IF ran.raised # "none" THEN ran
              ELSE ScorePredicted(ran.gat, y, scorer))


\* plot_gat (664-717): it reads the test and train time axes and shows
\* gat.scores
plot_gat(g) ==
    IF "test_times" \notin DOMAIN g THEN Outcome(g, "AttributeError", "None")
    ELSE IF "s" \notin DOMAIN g["train_times"] THEN Outcome(g, "KeyError", "None")
    ELSE IF \/ PyLen(g["test_times"]["s"]) = 0
            \/ PyLen(g["test_times"]["s"][0]) = 0
            \/ PyLen(PyLast(g["test_times"]["s"])) = 0
            \/ PyLen(g["train_times"]["s"]) = 0
         THEN Outcome(g, "IndexError", "None")
    ELSE IF "scores" \notin DOMAIN g THEN Outcome(g, "AttributeError", "None")
    ELSE Outcome(g, "none", "im, ax")


\* ------------------------------------------- the object and its callers
MaxClf == 1             \* classifier templates 0..MaxClf
MaxJobs == 2            \* n_jobs of fit is 1..MaxJobs

Datasets == {EpochsA, EpochsB}

\* what np.empty can leave in a row that no fold writes
Garbage == {<<1, 1>>, <<3, 1>>, <<7, 2>>}

BeforeFirst == 0 - Dt - 2        \* a time before the first sample of A and of B

NoFrame == PlanCall(EmptyList, EmptyDict)

\* the record kept of a call on the object g: the method, its arguments, the
\* attributes g had, the attributes the call left as they were, how the call
\* before it ended, and how this one ended
Call(op, g, epochs, independent, test_times, predict_type, out) ==
    [op |-> op, had |-> DOMAIN g,
     kept |-> {a \in DOMAIN g \cap DOMAIN out.gat : g[a] = out.gat[a]},
     after |-> [op |-> last.op, raised |-> last.raised],
     epochs |-> epochs, independent |-> independent,
     test_times |-> test_times, predict_type |-> predict_type,
     raised |-> out.raised, ret |-> out.ret,
     nfit |-> out.nfit, warnings |-> out.warnings]

\* gat = GeneralizationAcrossTime(cv=cv, clf=clf, train_times=train_times)
Constructed(cvs, clfs, train_times_choices) ==
    /\ frame = NoFrame
    /\ \E cv \in cvs, clf \in clfs, train_times \in train_times_choices :
         /\ gat = Construct(cv, clf, train_times)
         /\ last = [op |-> "__init__", had |-> {}, kept |-> {},
                    after |-> [op |-> "none", raised |-> "none"],
                    epochs |-> None, independent |-> FALSE,
                    test_times |-> TestNone, predict_type |-> "predict",
                    raised |-> "none", ret |-> "None",
                    nfit |-> 0, warnings |-> {}]

\* a call that never returns leaves nothing to call afterwards
Idle == last.raised # "hang"

\* gat.fit(epochs, n_jobs=n_jobs)
CallFit(datasets, jobs) ==
    /\ Idle
    /\ \E epochs \in datasets, n_jobs \in jobs :
         \E out \in {fit(gat, epochs, None, n_jobs)} :
         /\ gat' = out.gat
         /\ last' = Call("fit", gat, Some(epochs), FALSE, TestNone,
                         "predict", out)
    /\ UNCHANGED frame

\* np.empty matters only where some trial is in no test set
GarbageOf(g, independent) ==
    IF ~independent /\ "estimators" \in DOMAIN g /\ Covered(g["cv"].folds) # Trials
    THEN Garbage ELSE {<<0, 1>>}

\* gat.predict(epochs, independent=..., test_times=..., predict_type=...)
CallPredict(datasets, modes, test_times_choices, predict_types) ==
    /\ Idle
    /\ \E epochs \in datasets, independent \in modes,
          test_times \in test_times_choices, predict_type \in predict_types :
         \E garbage \in GarbageOf(gat, independent) :
         \E out \in {predict(gat, epochs, independent, test_times, predict_type,
                            garbage)} :
         /\ gat' = out.gat
         /\ last' = Call("predict", gat, Some(epochs), independent,
                         test_times, predict_type, out)
    /\ UNCHANGED frame

\* gat.score(epochs, independent=..., test_times=..., predict_type=...), or
\* gat.score() when epochs is None
CallScore(datasets, modes, test_times_choices, predict_types) ==
    /\ Idle
    /\ \E epochs \in datasets, independent \in modes,
          test_times \in test_times_choices, predict_type \in predict_types :
         \E garbage \in GarbageOf(gat, independent) :
         \E out \in {score(gat, epochs, None, None, independent, test_times,
                          predict_type, garbage)} :
         /\ gat' = out.gat
         /\ last' = Call("score", gat, epochs, independent,
                         test_times, predict_type, out)
    /\ UNCHANGED frame

\* plot_gat(gat)
CallPlot ==
    /\ Idle
    /\ \E out \in {plot_gat(gat)} :
         /\ gat' = out.gat
         /\ last' = Call("plot_gat", gat, None, FALSE, TestNone, "predict", out)
    /\ UNCHANGED frame

\* ---- the life of one object: any order of calls, the arguments the tests use
TrainTimesChoices == {EmptyDict, DictSet(EmptyDict, "start", BeforeFirst)}
TestTimesChoices == {TestNone, TestDict(DictSet(EmptyDict, "start", BeforeFirst))}

Init == Constructed({IntCv(2)}, {0}, TrainTimesChoices)

Fit == CallFit(Datasets, 1..MaxJobs)

Predict == CallPredict({EpochsA}, BOOLEAN, TestTimesChoices, {"predict"})

\* score(epochs) and score(): the other arguments keep their defaults
Score == CallScore({None, Some(EpochsA)}, {FALSE}, {TestNone}, {"predict"})

Plot == CallPlot

Next == Fit \/ Predict \/ Score \/ Plot

Spec == Init /\ [][Next]_vars

\* ---- properties of the life of the object
\* C1: a call made before its prerequisite is rejected with a RuntimeError:
\* predict on an object no fit has completed on, and score without a dataset
\* on a fitted object that holds no predictions
C1_LifecycleGuard ==
    /\ (last.op = "predict" /\ "estimators" \notin last.had) =>
           last.raised = "RuntimeError"
    /\ (/\ last.op = "score" /\ IsNone(last.epochs)
        /\ "estimators" \in last.had /\ "y_pred" \notin last.had) =>
           last.raised = "RuntimeError"

\* C2: a fit that completes leaves no predictions and no scores on the
\* object, and a plot_gat that follows it finds no score matrix to read
C2_FitInvalidates ==
    /\ (last.op = "fit" /\ last.raised = "none") =>
           ("y_pred" \notin DOMAIN gat /\ "scores" \notin DOMAIN gat)
    /\ (last.op = "plot_gat" /\ last.after = [op |-> "fit", raised |-> "none"]) =>
           last.raised # "none"

\* C3: score without a dataset, right after a predict that succeeded,
\* succeeds, leaves the stored predictions as they are, and returns the score
\* matrix it stores
C3_ScoreReusesPredictions ==
    (/\ last.op = "score" /\ IsNone(last.epochs)
     /\ last.after = [op |-> "predict", raised |-> "none"]) =>
        /\ last.raised = "none"
        /\ "y_pred" \in last.kept
        /\ "scores" \in DOMAIN gat
        /\ last.ret = "scores"

\* the configured start lies before the first sample of the data
StartBefore(options, epochs) ==
    "start" \in DOMAIN options /\ options["start"] < epochs.times[0]

\* C8: a start time earlier than the first sample of the data is a
\* configuration error, in the first fit of an object (its training windows)
\* and in predict on a fitted object (its test windows)
C8_StartBeforeFirstRejected ==
    /\ (/\ last.op = "fit" /\ last.after.op = "__init__"
        /\ StartBefore(gat["train_times"], last.epochs[1])) =>
           last.raised = ConfigurationError
    /\ (/\ last.op = "predict" /\ "estimators" \in last.had
        /\ StartBefore(last.test_times.dict, last.epochs[1])) =>
           last.raised = ConfigurationError

\* ---- properties of a fit that fails
\* the labels of the dataset a classifier was fitted on
EventsOf(id) == (CHOOSE e \in {EpochsA, EpochsB, EpochsC} : e.id = id).events

\* the object holds an estimator grid and training labels from different fits
Mixed(g) ==
    /\ "estimators" \in DOMAIN g
    /\ g["y_train"] # EventsOf(g["estimators"][0][0].data)

\* C18: a fit that raises on an object that holds an estimator grid leaves
\* the fold set, the training labels and the training windows of that grid
\* as they were, and predict does not run on a grid together with the
\* training labels of another fit
C18_FailedFitNotMixed ==
    /\ (/\ last.op = "fit" /\ last.raised \notin {"none", "hang"}
        /\ "estimators" \in DOMAIN gat) =>
           {"cv", "y_train", "train_times"} \subseteq last.kept
    /\ (last.op = "predict" /\ Mixed(gat)) => last.raised # "none"


\* a score call that passes a dataset and nothing else about the predictions
\* follows a predict call that returned
ScoreAfterPredict ==
    /\ last.op = "predict" /\ last.raised = "none"
    /\ last'.op = "score" /\ ~IsNone(last'.epochs)

\* C30: such a score call leaves the stored mode, output type and testing
\* windows as the predict call set them, and scores predictions made with them
C30_ScoreKeepsSettings ==
    [][ScoreAfterPredict =>
          /\ {"independent", "predict_type", "test_times"} \subseteq last'.kept
          /\ gat'["independent"] = last.independent
          /\ last'.raised = "none" => "y_pred" \in last'.kept]_vars

\* the same after a predict call with the default settings only
C30_DefaultsKept ==
    [][(/\ ScoreAfterPredict /\ ~last.independent
        /\ last.test_times = TestNone /\ last.predict_type = "predict") =>
          /\ {"independent", "predict_type", "test_times"} \subseteq last'.kept
          /\ last'.raised = "none" => "y_pred" \in last'.kept]_vars


\* ---- one fit, then one predict or one score: every cv, mode and output type
EngineCv == {IntCv(2), FoldsCv(CvLeaveOneOut), FoldsCv(CvTwoFold),
             FoldsCv(CvUncovered), FoldsCv(CvEmptyTrain), FoldsCv(CvEmptyTest),
             FoldsCv(CvUnequal)}

InitEngine == Constructed(EngineCv, 0..MaxClf, {EmptyDict})

EngineFit ==
    /\ last.op = "__init__"
    /\ CallFit({EpochsA}, {1})

\* the predict_type a caller passes: a supported one, or another string
EnginePredictTypes == PredictTypes \cup {"foo"}

EnginePredict ==
    /\ last.op = "fit"
    /\ CallPredict({EpochsA, EpochsC}, BOOLEAN, {TestNone, TestStr("diagonal")},
                   EnginePredictTypes)

EngineScore ==
    /\ last.op = "fit"
    /\ CallScore({Some(EpochsA), Some(EpochsC)}, BOOLEAN,
                 {TestNone, TestStr("diagonal")}, EnginePredictTypes)

NextEngine == EngineFit \/ EnginePredict \/ EngineScore

SpecEngine == InitEngine /\ [][NextEngine]_vars

\* ---- properties of the predictions and of the scores
\* what one classifier gives for one sample: its label, or its columns of
\* probabilities or distances, of which the second alone is kept when they
\* are two
Output1(clf, x, predict_type) ==
    With(ClfOutput(clf, x, predict_type), LAMBDA out :
        IF predict_type # "predict" /\ PyLen(out) = 2
        THEN List(1, LAMBDA c : out[1]) ELSE out)

\* the sample of trial i that the call `last` predicts at cell (u, w)
CellSample(u, w, i) ==
    Sample(last.epochs[1], i, gat["test_times"]["slices"][u][w])

\* the cells (u, w) of the stored predictions
Cells == UNION {{<<u, w>> : w \in DOMAIN gat["y_pred"][u]} : u \in DOMAIN gat["y_pred"]}

\* a predict or score call on a fitted object in matched mode has returned
MatchedDone ==
    /\ last.op \in {"predict", "score"} /\ last.raised = "none"
    /\ ~last.independent

\* C4: in matched mode, when every trial is in the test set of exactly one
\* fold, the prediction stored for (u, w, i) is what the classifier fitted
\* at (u, k) gives for trial i at window w, k being the fold that tests i
C4_MatchedRouting ==
    (MatchedDone /\ IsPartition(gat["cv"].folds)) =>
        \A uw \in Cells : \A i \in Trials :
            \E k \in DOMAIN gat["cv"].folds :
                /\ i \in TestSet(gat["cv"].folds[k])
                /\ gat["y_pred"][uw[1]][uw[2]][i] =
                       Output1(gat["estimators"][uw[1]][k],
                               CellSample(uw[1], uw[2], i), last.predict_type)

\* a matched prediction over a partition where some trial outside the first
\* fold gets a prediction that the first fold's classifier would not give
C4_Witness ==
    /\ MatchedDone /\ IsPartition(gat["cv"].folds)
    /\ last.op = "predict"
    /\ \E uw \in Cells : \E i \in Trials :
           /\ i \notin TestSet(gat["cv"].folds[0])
           /\ gat["y_pred"][uw[1]][uw[2]][i] #
                  Output1(gat["estimators"][uw[1]][0],
                          CellSample(uw[1], uw[2], i), last.predict_type)

\* the fold-aggregate of the outputs of all the classifiers of training
\* window u for the sample x: the most frequent label, or the mean column
Aggregate(estimator, x, predict_type) ==
    With(List(PyLen(estimator), LAMBDA k : Output1(estimator[k], x, predict_type)),
         LAMBDA outs :
        List(PyLen(outs[0]), LAMBDA c :
            IF predict_type = "predict"
            THEN Mode(List(PyLen(outs), LAMBDA k : outs[k][c]))
            ELSE Mean(List(PyLen(outs), LAMBDA k : outs[k][c]))))

\* a predict call in independent mode on an object fitted with 2 folds or more
IndependentCall ==
    /\ last.op = "predict" /\ last.independent
    /\ "estimators" \in last.had
    /\ PyLen(gat["cv"].folds) >= 2

\* C5: in independent mode with K >= 2 folds the call gives, for every
\* training window, test window and trial, the aggregate over all K fold
\* classifiers: the majority label, or the mean margin or probability
C5_IndependentAggregation ==
    IndependentCall =>
        /\ last.raised = "none"
        /\ \A uw \in Cells : \A i \in Trials :
               gat["y_pred"][uw[1]][uw[2]][i] =
                   Aggregate(gat["estimators"][uw[1]],
                             CellSample(uw[1], uw[2], i), last.predict_type)

\* the entries of a list at the indices in S, in order
Restrict(l, S) == With(SortedList(S), LAMBDA at : List(PyLen(at), LAMBDA j : l[at[j]]))

\* C6: in matched mode the score of every cell is computed over the trials
\* that some fold tests; the slot of a trial no fold tests does not count
C6_UncoveredExcluded ==
    (/\ MatchedDone /\ last.op = "score"
     /\ Covered(gat["cv"].folds) # Trials) =>
        \A uw \in Cells :
            gat["scores"][uw[1]][uw[2]] =
                _scorer(Restrict(gat["y_true"], Covered(gat["cv"].folds)),
                        Restrict(gat["y_pred"][uw[1]][uw[2]],
                                 Covered(gat["cv"].folds)),
                        gat["scorer"]).val


\* a score call with the diagonal setting has returned
DiagonalScored ==
    /\ last.op = "score" /\ last.raised = "none"
    /\ last.test_times = TestStr("diagonal")

\* the full run on the same object and the same data: score with the default
\* test windows, np.empty leaving `garbage` in the rows no fold writes
FullRun(garbage) ==
    score(gat, last.epochs, None, None, last.independent, TestNone,
          last.predict_type, garbage)

\* C13: with one window per sample, the diagonal run gives for every training
\* window i the predictions and the score that the full run on the same
\* fitted grid and the same data gives at cell (i, i)
C13_DiagonalEqualsFull ==
    DiagonalScored =>
        \A garbage \in GarbageOf(gat, last.independent) :
            \A full \in {FullRun(garbage)} :
                /\ full.raised = "none"
                /\ \A i \in DOMAIN gat["scores"] :
                       /\ gat["scores"][i][0] = full.gat["scores"][i][i]
                       /\ gat["y_pred"][i][0] = full.gat["y_pred"][i][i]


\* a predict call for class probabilities on a fitted object; the classifiers
\* give one column per class, two for the two classes of the data
ProbaCall ==
    /\ last.op = "predict" /\ "estimators" \in last.had
    /\ last.predict_type = "proba"

\* C14: with two classes and two-column classifier outputs the call gives
\* predictions with one output per trial, the second column: the one of the
\* fold's classifier in matched mode, the mean over the folds' classifiers
\* in independent mode
C14_BinaryCollapse ==
    ProbaCall =>
        /\ last.raised = "none"
        /\ \A uw \in Cells : \A i \in Trials :
               /\ PyLen(gat["y_pred"][uw[1]][uw[2]][i]) = 1
               /\ ~last.independent =>
                      \A k \in FoldsOf(gat["cv"].folds, i) :
                          k = SetMax(FoldsOf(gat["cv"].folds, i)) =>
                              gat["y_pred"][uw[1]][uw[2]][i][0] =
                                  ClfProba(gat["estimators"][uw[1]][k],
                                           CellSample(uw[1], uw[2], i))[1]
               /\ last.independent =>
                      gat["y_pred"][uw[1]][uw[2]][i][0] =
                          Mean(List(PyLen(gat["estimators"][uw[1]]), LAMBDA k :
                                    ClfProba(gat["estimators"][uw[1]][k],
                                             CellSample(uw[1], uw[2], i))[1]))


\* a fit with a fold set in which some fold has no train index
EmptyTrainFit ==
    /\ last.op = "fit"
    /\ \E k \in DOMAIN gat["cv"].folds : PyLen(gat["cv"].folds[k].train) = 0

\* C16: a fit with a fold that has no train index raises before any
\* classifier is fitted and leaves no estimator grid on the object
C16_EmptyTrainFailFast ==
    EmptyTrainFit =>
        /\ last.raised # "none"
        /\ last.nfit = 0
        /\ "estimators" \notin DOMAIN gat

\* a predict call in matched mode on an object fitted with a fold set in
\* which some fold has no test index
EmptyTestCall ==
    /\ last.op = "predict" /\ "estimators" \in last.had
    /\ ~last.independent
    /\ \E k \in DOMAIN gat["cv"].folds : PyLen(gat["cv"].folds[k].test) = 0

\* C17: in matched mode a fold with no test index is tolerated: the call
\* returns, it has warned that some folds have no test epochs, and the
\* trials of the other folds have the predictions of their folds' classifiers
C17_EmptyTestTolerated ==
    EmptyTestCall =>
        /\ last.raised = "none"
        /\ "do not have any test epochs" \in last.warnings
        /\ \A uw \in Cells : \A i \in Covered(gat["cv"].folds) :
               gat["y_pred"][uw[1]][uw[2]][i] =
                   Output1(gat["estimators"][uw[1]][SetMax(FoldsOf(gat["cv"].folds, i))],
                           CellSample(uw[1], uw[2], i), last.predict_type)


\* a predict call on a fitted object with a predict_type that is none of
\* 'predict', 'proba' and 'distance'
UnknownTypeCall ==
    /\ last.op = "predict" /\ "estimators" \in last.had
    /\ last.predict_type \notin PredictTypes

\* C21: predict with an unsupported predict_type fails with a configuration
\* error (a ValueError, or the NotImplementedError of the test) and leaves
\* no predictions on the object
C21_UnknownTypeRejected ==
    UnknownTypeCall =>
        /\ last.raised \in {ConfigurationError, "NotImplementedError"}
        /\ "y_pred" \in DOMAIN gat =>
               \A u \in DOMAIN gat["y_pred"] : gat["y_pred"][u] = EmptyList


\* a score call in matched mode for labels, on the data the object was
\* fitted on, with folds whose test sets partition the trials, has returned
RoundTrip ==
    /\ MatchedDone /\ last.op = "score" /\ last.predict_type = "predict"
    /\ last.epochs[1].id = gat["estimators"][0][0].data
    /\ IsPartition(gat["cv"].folds)

\* the cell of training window u where the test window is u itself
DiagonalCell(u) == IF last.test_times.kind = "str" THEN 0 ELSE u

\* computed directly: a classifier fitted on the train trials of fold k at
\* training window u predicts the label of trial i at window u correctly
DirectHit(u, k, i) ==
    ClfPredict(Fitted(gat["clf"], last.epochs[1].id,
                      gat["train_times"]["slices"][u],
                      gat["cv"].folds[k].train, gat["y_train"]),
               Sample(last.epochs[1], i, gat["train_times"]["slices"][u]))
        = <<gat["y_train"][i], 1>>

\* the accuracy of fold k at window u on the test trials of fold k
FoldAccuracy(u, k) ==
    Rat(Cardinality({i \in TestSet(gat["cv"].folds[k]) : DirectHit(u, k, i)}),
        PyLen(gat["cv"].folds[k].test))

\* ordinary k-fold cross-validated accuracy: the mean of the folds' accuracies
FoldwiseAccuracy(u) ==
    Mean(List(PyLen(gat["cv"].folds), LAMBDA k : FoldAccuracy(u, k)))

\* the fraction of all trials that the classifier of their own fold predicts
\* correctly
PooledAccuracy(u) ==
    Rat(Cardinality({i \in Trials :
            \E k \in FoldsOf(gat["cv"].folds, i) : DirectHit(u, k, i)}),
        NTrials)

\* C23 (as stated): the diagonal score of every training window equals the
\* k-fold cross-validated accuracy, the mean over the folds of the accuracy
\* on the fold's test trials
C23_FoldwiseRoundTrip ==
    RoundTrip =>
        \A u \in DOMAIN gat["scores"] :
            gat["scores"][u][DiagonalCell(u)] = FoldwiseAccuracy(u)

\* C23 (as the code has it): the diagonal score of every training window is
\* the accuracy over all trials pooled, each predicted by the classifier of
\* the fold that tests it; with test sets of equal size this is the mean of
\* the folds' accuracies
C23_PooledRoundTrip ==
    RoundTrip =>
        \A u \in DOMAIN gat["scores"] :
            /\ gat["scores"][u][DiagonalCell(u)] = PooledAccuracy(u)
            /\ (\A k \in DOMAIN gat["cv"].folds :
                    PyLen(gat["cv"].folds[k].test) = PyLen(gat["cv"].folds[0].test))
                   => gat["scores"][u][DiagonalCell(u)] = FoldwiseAccuracy(u)

\* a round trip over folds of unequal size where the pooled accuracy is not
\* the mean of the folds' accuracies
C23_Witness ==
    /\ RoundTrip
    /\ \E u \in DOMAIN gat["scores"] :
           /\ gat["scores"][u][DiagonalCell(u)] = PooledAccuracy(u)
           /\ PooledAccuracy(u) # FoldwiseAccuracy(u)


\* ---- one fit, then predict and score calls: the window configurations
\* a duration that the planner rounds to two samples of EpochsA
TwoSamples == <<2 * Dt - 3, 1>>
\* explicit test windows: two for the first training window, one for the second
RaggedSlices ==
    List(2, LAMBDA u : List(2 - u, LAMBDA w : PyRange(2 * u + w, 2 * u + w + 1)))
\* start, stop, step and length all written by the caller
AllKeys(times) == FillDefaults(times, EmptyDict)

GridTrainTimes ==
    {EmptyDict,
     DictSet(EmptyDict, "length", TwoSamples),
     DictSet(EmptyDict, "slices", ExplicitSlices),
     DictSet(DictSet(EmptyDict, "slices", ExplicitSlices), "step", TwoSamples),
     DictSet(AllKeys(EpochsA.times), "slices", ExplicitSlices)}

GridTestTimes ==
    {TestNone, TestStr("diagonal"), TestStr("foo"),
     TestDict(DictSet(EmptyDict, "length", TwoSamples)),
     TestDict(DictSet(EmptyDict, "step", TwoSamples)),
     TestDict(DictSet(EmptyDict, "slices", RaggedSlices))}

InitGrid == Constructed({IntCv(2)}, {0}, GridTrainTimes)

GridFit ==
    /\ last.op = "__init__"
    /\ CallFit({EpochsA}, {1})

GridPredict ==
    /\ last.op # "__init__"
    /\ CallPredict({EpochsA}, {FALSE}, GridTestTimes, {"predict"})

GridScore ==
    /\ last.op # "__init__"
    /\ CallScore({None, Some(EpochsA)}, {FALSE}, GridTestTimes, {"predict"})

NextGrid == GridFit \/ GridPredict \/ GridScore

SpecGrid == InitGrid /\ [][NextGrid]_vars

\* ---- properties of the realized windows
\* C11: when the training-window configuration holds explicit windows, the
\* fit completes and the training windows it leaves are exactly those
\* windows, whichever of start, stop, step and length are given with them
C11_ExplicitWindowsKept ==
    [][(/\ last.op = "__init__" /\ last'.op = "fit"
        /\ "slices" \in DOMAIN gat["train_times"]) =>
           /\ last'.raised = "none"
           /\ gat'["train_times"]["slices"] = gat["train_times"]["slices"]]_vars

\* a predict or score call with the diagonal setting has returned
DiagonalDone ==
    /\ last.op \in {"predict", "score"} /\ last.raised = "none"
    /\ last.test_times = TestStr("diagonal")

\* C12: after a call with the diagonal setting there is one list of test
\* windows per training window, each list holds one window, the training
\* window itself, and predictions and scores have one column per row
C12_DiagonalWindows ==
    DiagonalDone =>
        /\ PyLen(gat["test_times"]["slices"]) = PyLen(gat["train_times"]["slices"])
        /\ \A i \in DOMAIN gat["train_times"]["slices"] :
               /\ PyLen(gat["test_times"]["slices"][i]) = 1
               /\ gat["test_times"]["slices"][i][0] = gat["train_times"]["slices"][i]
               /\ PyLen(gat["y_pred"][i]) = 1
               /\ last.op = "score" => PyLen(gat["scores"][i]) = 1
        /\ PyLen(gat["y_pred"]) = PyLen(gat["train_times"]["slices"])
        /\ last.op = "score" =>
               PyLen(gat["scores"]) = PyLen(gat["train_times"]["slices"])

\* a diagonal score over two training windows of two samples each
C12_Witness ==
    /\ DiagonalDone /\ last.op = "score"
    /\ PyLen(gat["train_times"]["slices"]) = 2
    /\ gat["test_times"]["slices"][1][0] = PyRange(1, 3)
    /\ gat["test_times"]["slices"][0][0] # gat["test_times"]["slices"][1][0]

\* a predict or score call on a fitted object whose test windows are given
\* as explicit lists, as wide as the windows the classifiers were fitted on
ExplicitTestCall ==
    /\ last.op \in {"predict", "score"} /\ "estimators" \in last.had
    /\ last.test_times.kind = "dict"
    /\ "slices" \in DOMAIN last.test_times.dict
    /\ \A u \in DOMAIN gat["train_times"]["slices"] :
           PyLen(gat["train_times"]["slices"][u]) = 1

\* C15: when the lists of test windows have different lengths, predict
\* stores for training window i one prediction entry per test window of
\* list i, and score one score per test window of list i
C15_RaggedKept ==
    ExplicitTestCall =>
        /\ last.raised = "none"
        /\ \A i \in DOMAIN last.test_times.dict["slices"] :
               /\ PyLen(gat["y_pred"][i]) = PyLen(last.test_times.dict["slices"][i])
               /\ last.op = "score" =>
                      PyLen(gat["scores"][i]) =
                          PyLen(last.test_times.dict["slices"][i])

\* a string that is not the diagonal setting
SillyString(test_times) == test_times.kind = "str" /\ test_times.str # "diagonal"

\* C19: predict with a string other than 'diagonal' as test windows is a
\* configuration error that leaves no predictions on the object, and a score
\* without data that follows it fails with a RuntimeError
C19_SillyStringRejected ==
    /\ [](/\ last.op = "predict" /\ "estimators" \in last.had
          /\ SillyString(last.test_times)
          => /\ last.raised = ConfigurationError
             /\ "y_pred" \notin DOMAIN gat)
    /\ [][(/\ last.op = "predict" /\ "estimators" \in last.had
           /\ SillyString(last.test_times)
           /\ last'.op = "score" /\ IsNone(last'.epochs))
           => last'.raised = "RuntimeError"]_vars

\* a predict call on a fitted object that asks for test windows of a length
\* (in samples) other than the width of the training windows
OtherLengthCall ==
    /\ last.op = "predict" /\ "estimators" \in last.had
    /\ last.test_times.kind = "dict"
    /\ "length" \in DOMAIN last.test_times.dict
    /\ RoundDiv(last.test_times.dict["length"], Freq(last.epochs[1].times)) #
           PyLen(gat["train_times"]["slices"][0])

\* C20: predict with a test-window length that differs from the
\* training-window length is a configuration error
C20_OtherLengthRejected ==
    OtherLengthCall => last.raised = ConfigurationError


\* ---- the scorer, applied to one cell of multiclass predictions
\* the classes the classifiers were fitted on: predict_proba gives one
\* column per class, in this order
FittedClasses == List(3, LAMBDA c : c + 1)
ColumnOf(c) == CHOOSE ii \in DOMAIN FittedClasses : FittedClasses[ii] = c
\* the trials of one cell
ScoredTrials == 3
\* a row of the predictions: the whole probability on one class
OneHot(c) == List(PyLen(FittedClasses),
                  LAMBDA ii : IF ii = c THEN <<1, 1>> ELSE <<0, 1>>)

\* the call _scorer(y, y_pred, scorer), before its first statement
ScorerCall(y, y_pred, scorer) ==
    [pc |-> "entry", y |-> y, y_pred |-> y_pred, scorer |-> scorer,
     score |-> <<0, 1>>, err |-> "none"]

InitScorer ==
    /\ \E y \in [0..(ScoredTrials - 1) -> Elems(FittedClasses)],
          hot \in [0..(ScoredTrials - 1) -> DOMAIN FittedClasses],
          scorer \in {"accuracy_score", "roc_auc_score"} :
            frame = ScorerCall(y, List(ScoredTrials, LAMBDA i : OneHot(hot[i])),
                               scorer)
    /\ gat = NoObject
    /\ last = NoObject

ScorerRun ==
    /\ frame.pc = "entry"
    /\ \E out \in {_scorer(frame.y, frame.y_pred, frame.scorer)} :
         frame' = [frame EXCEPT
                      !.pc = IF out.err = "none" THEN "return" ELSE "raise",
                      !.score = out.val, !.err = out.err]
    /\ UNCHANGED <<gat, last>>

NextScorer == ScorerRun

SpecScorer == InitScorer /\ [][NextScorer]_vars

\* the classes among the labels of the scored trials
Present(y) == SortedList(Elems(y))

\* the mean over the classes c among the labels of the score of the flags
\* y == c against the prediction column of class c
OneVsRest(y, y_pred, scorer) ==
    Mean(List(PyLen(Present(y)), LAMBDA k :
              ApplyScorer(scorer, Flags(y, Present(y)[k]),
                          Column(y_pred, ColumnOf(Present(y)[k]))).val))

\* C22: the score of a cell with one prediction column per class is the mean
\* over the classes of scorer(y == c, column of class c), each class with its
\* own column, also when the labels do not contain every class
C22_OneVsRest ==
    frame.pc = "return" =>
        frame.score = OneVsRest(frame.y, frame.y_pred, frame.scorer)


\* ---- the classifier instances of one fit, chunk by chunk
MaxFolds == 3           \* folds of the fits whose instances are followed

\* the heap of classifier instances: instance 0 is self.clf, the template;
\* an instance records the template it copies and the cells (window, fold)
\* it has been fitted for
\* an instance is named after the place that made it: the constructor's
\* argument, the copy made for chunk j, the copy made for cell (t, k)
Template == <<"clf", 0, 0>>
ChunkCopy(j) == <<"chunk", j, 0>>
CellCopy(cell) == <<"cell", cell[1], cell[2]>>
NoInstance == <<"none", 0, 0>>
Instance(of) == [of |-> of, fits |-> {}]

\* no copy at all: the instance itself is handed on
same_instance(heap, src, new) == [heap |-> heap, id |-> src]

\* sklearn.base.clone(clf): a new, unfitted instance with the parameters of clf
clone(heap, src, new) ==
    [heap |-> DictSet(heap, new, Instance(heap[src].of)), id |-> new]

\* clf_.fit(X[train, :], y[train]) for the cell (window, fold)
FitInstance(heap, id, cell) ==
    [heap EXCEPT ![id] = [@ EXCEPT !.fits = @ \cup {cell}]]

\* the windows (their indices) of chunk j: np.array_split(slices, n_chunk)
ChunkWindows(f, j) ==
    ArraySplit(List(f.n_windows, LAMBDA t : t), f.n_jobs, j)

\* fit, at the point where the chunks are handed to the parallel workers
\* (lines 138-147): no chunk dispatched, no classifier fitted
FitCall(n_windows, n_folds, n_jobs) ==
    [pc |-> "run", n_windows |-> n_windows, n_folds |-> n_folds,
     n_jobs |-> n_jobs, heap |-> DictSet(EmptyDict, Template, Instance(Template)),
     chunk_clf |-> List(n_jobs, LAMBDA j : NoInstance),
     fitted |-> List(n_jobs, LAMBDA j : 0),
     grid |-> EmptyDict, err |-> "none"]

InitClone ==
    /\ \E n_windows \in 2..MaxSamples, n_folds \in 2..MaxFolds,
          n_jobs \in 1..MaxJobs :
            frame = FitCall(n_windows, n_folds, n_jobs)
    /\ gat = NoObject
    /\ last = NoObject

\* the generator of line 139 yields the arguments of the next chunk:
\* clone(self.clf), then the columns of the chunk (np.concatenate of no
\* window raises)
DispatchChunk ==
    /\ frame.pc = "run"
    /\ \E j \in DOMAIN frame.chunk_clf :
         /\ frame.chunk_clf[j] = NoInstance
         /\ j > 0 => frame.chunk_clf[j - 1] # NoInstance
         /\ \E c \in {clone(frame.heap, Template, ChunkCopy(j))} :
              frame' = [frame EXCEPT
                           !.heap = c.heap,
                           !.chunk_clf[j] = c.id,
                           !.pc = IF PyLen(ChunkWindows(frame, j)) = 0
                                  THEN "raise" ELSE "run",
                           !.err = IF PyLen(ChunkWindows(frame, j)) = 0
                                   THEN "ValueError" ELSE "none"]
    /\ UNCHANGED <<gat, last>>

\* one turn of the inner loop of _fit_slices in the worker of chunk j
\* (lines 517-521): clf_ = clone(clf); clf_.fit(...); estimators_ += [clf_]
FitCell ==
    /\ frame.pc = "run"
    /\ \E j \in DOMAIN frame.chunk_clf :
         /\ frame.chunk_clf[j] # NoInstance
         /\ frame.fitted[j] < PyLen(ChunkWindows(frame, j)) * frame.n_folds
         /\ \E cell \in {<<ChunkWindows(frame, j)[frame.fitted[j] \div frame.n_folds],
                            frame.fitted[j] % frame.n_folds>>} :
            \E c \in {clone(frame.heap, frame.chunk_clf[j], CellCopy(cell))} :
              frame' = [frame EXCEPT
                           !.heap = FitInstance(c.heap, c.id, cell),
                           !.fitted[j] = @ + 1,
                           !.grid = DictSet(@, cell, c.id)]
    /\ UNCHANGED <<gat, last>>

\* lines 149-153: every worker has returned; the lists are unpacked
UnpackGrid ==
    /\ frame.pc = "run"
    /\ \A j \in DOMAIN frame.chunk_clf :
         /\ frame.chunk_clf[j] # NoInstance
         /\ frame.fitted[j] = PyLen(ChunkWindows(frame, j)) * frame.n_folds
    /\ frame' = [frame EXCEPT !.pc = "done"]
    /\ UNCHANGED <<gat, last>>

NextClone == DispatchChunk \/ FitCell \/ UnpackGrid

SpecClone == InitClone /\ [][NextClone]_vars

\* C24: every cell of the grid holds an instance of its own that copies the
\* template and is fitted for that cell only; no instance is fitted for two
\* cells; the template, and the copies handed to the chunks, are never fitted
C24_CloneIndependence ==
    /\ frame.heap[Template].fits = {}
    /\ \A j \in DOMAIN frame.chunk_clf :
           frame.chunk_clf[j] # NoInstance =>
               frame.heap[frame.chunk_clf[j]].fits = {}
    /\ \A id \in DOMAIN frame.heap : Cardinality(frame.heap[id].fits) <= 1
    /\ \A c \in DOMAIN frame.grid :
           /\ frame.heap[frame.grid[c]] = [of |-> Template, fits |-> {c}]
           /\ \A d \in DOMAIN frame.grid : frame.grid[c] = frame.grid[d] => c = d
    /\ frame.pc = "done" =>
           DOMAIN frame.grid = (0..(frame.n_windows - 1)) \X (0..(frame.n_folds - 1))

\* a fit over two chunks has filled the whole grid
C24_Witness ==
    /\ frame.pc = "done" /\ frame.n_jobs = 2
    /\ Cardinality(DOMAIN frame.grid) = frame.n_windows * frame.n_folds
    /\ Cardinality({frame.grid[c] : c \in DOMAIN frame.grid}) =
           frame.n_windows * frame.n_folds


\* ---- two predict calls at once on one fitted object
\* the arguments of the two calls
RaceTestTimes == {TestNone, TestStr("diagonal")}
RaceTypes == {"predict", "proba"}

\* a predict call that has bound its arguments and formatted its data
\* (line 196); slices and packed are its local variables
PredictCall(epochs, independent, test_times, predict_type) ==
    [pc |-> "independent", epochs |-> epochs, independent |-> independent,
     test_times |-> test_times, predict_type |-> predict_type,
     slices |-> EmptyList, packed |-> EmptyList, y_pred |-> EmptyList,
     err |-> "none"]

\* the object both calls work on: fitted on EpochsA
InitRace ==
    /\ \E clf \in 0..MaxClf :
         /\ gat = fit(Construct(IntCv(2), clf, EmptyDict), EpochsA, None, 1).gat
         /\ last = [op |-> "fit", estimators |-> gat["estimators"]]
    /\ \E a \in {PredictCall(EpochsA, FALSE, t, p) :
                      t \in RaceTestTimes, p \in RaceTypes},
          b \in {PredictCall(e, i, t, p) :
                      e \in {EpochsA, EpochsC}, i \in BOOLEAN,
                      t \in RaceTestTimes, p \in RaceTypes} :
         frame = List(2, LAMBDA c : IF c = 0 THEN a ELSE b)

\* lines 203-209 of call c: self.independent, self.y_true
StoreIndependent ==
    \E c \in DOMAIN frame :
        /\ frame[c].pc = "independent"
        /\ gat' = DictSet(DictSet(gat, "independent", frame[c].independent),
                          "y_true", IF ~frame[c].independent THEN gat["y_train"]
                                    ELSE _format_data(frame[c].epochs, None).y)
        /\ frame' = [frame EXCEPT ![c].pc = "predict_type"]
        /\ UNCHANGED last

\* line 212 of call c: self.predict_type
StorePredictType ==
    \E c \in DOMAIN frame :
        /\ frame[c].pc = "predict_type"
        /\ gat' = DictSet(gat, "predict_type", frame[c].predict_type)
        /\ frame' = [frame EXCEPT ![c].pc = "test_times"]
        /\ UNCHANGED last

\* lines 215-238 of call c: the testing windows, planned from the arguments
\* of the call and from self.train_times, then stored in self.test_times
StoreTestTimes ==
    \E c \in DOMAIN frame :
        /\ frame[c].pc = "test_times"
        /\ \E out \in {predict(gat, frame[c].epochs, frame[c].independent,
                                 frame[c].test_times, frame[c].predict_type,
                                 <<0, 1>>)} :
             /\ "test_times" \in DOMAIN out.gat
             /\ gat' = DictSet(gat, "test_times", out.gat["test_times"])
             /\ frame' = [frame EXCEPT
                              ![c].slices = out.gat["test_times"]["slices"],
                              ![c].pc = "loop"]
        /\ UNCHANGED last

\* lines 244-253 of call c: self.y_pred is reset and every training window
\* is predicted, with the mode and the type read from the object
RunLoops ==
    \E c \in DOMAIN frame :
        /\ frame[c].pc = "loop"
        /\ gat' = DictSet(gat, "y_pred",
                          List(PyLen(frame[c].slices), LAMBDA t : EmptyList))
        /\ \E packed \in {List(PyLen(frame[c].slices), LAMBDA t_train :
                 _predict_time_loop(_format_data(frame[c].epochs, None).X,
                                    gat["estimators"][t_train],
                                    gat["cv"].folds, frame[c].slices[t_train],
                                    gat["independent"], gat["predict_type"],
                                    <<0, 1>>))} :
             \E failed \in {{t \in DOMAIN packed : packed[t].err # "none"}} :
               frame' = [frame EXCEPT
                   ![c].packed = IF failed = {}
                                 THEN List(PyLen(packed), LAMBDA t : packed[t].val)
                                 ELSE EmptyList,
                   ![c].err = IF failed = {} THEN "none"
                              ELSE packed[SetMin(failed)].err,
                   ![c].pc = IF failed = {} THEN "y_pred" ELSE "raise"]
        /\ UNCHANGED last

\* line 255 of call c: self.y_pred
StorePredictions ==
    \E c \in DOMAIN frame :
        /\ frame[c].pc = "y_pred"
        /\ gat' = DictSet(gat, "y_pred", ZipTranspose(frame[c].packed))
        /\ frame' = [frame EXCEPT ![c].y_pred = ZipTranspose(frame[c].packed),
                                  ![c].pc = "done"]
        /\ UNCHANGED last

NextRace ==
    \/ StoreIndependent
    \/ StorePredictType
    \/ StoreTestTimes
    \/ RunLoops
    \/ StorePredictions

SpecRace == InitRace /\ [][NextRace]_vars

\* what call c leaves when no other call runs beside it
Alone(c) ==
    predict(gat, frame[c].epochs, frame[c].independent, frame[c].test_times,
            frame[c].predict_type, <<0, 1>>)

\* C25: under every interleaving of two predict calls on one fitted object
\* the estimators stay as fit left them, and a call ends as it ends when it
\* runs alone: with the same predictions, or with the same error
C25_ConcurrentPredictSafe ==
    /\ gat["estimators"] = last.estimators
    /\ \A c \in DOMAIN frame :
        /\ frame[c].pc = "done" =>
               /\ Alone(c).raised = "none"
               /\ frame[c].y_pred = Alone(c).gat["y_pred"]
        /\ frame[c].pc = "raise" => Alone(c).raised = frame[c].err

\* the estimators alone: no step of predict writes them
C25_EstimatorsKept == gat["estimators"] = last.estimators


\* ---- one fit, over every number of parallel jobs
\* n_jobs of these fits: up to one more than MaxJobs, which is more than the
\* windows of the shortest dataset
JobChoices == 1..(MaxJobs + 1)

InitJobs ==
    Constructed({IntCv(2), FoldsCv(CvLeaveOneOut), FoldsCv(CvTwoFold),
                 FoldsCv(CvUnequal)}, 0..MaxClf, GridTrainTimes)

JobsFit ==
    /\ last.op = "__init__"
    /\ CallFit({EpochsA, EpochsB, EpochsC}, JobChoices)

NextJobs == JobsFit

SpecJobs == InitJobs /\ [][NextJobs]_vars

\* the grid of a fit that returned: estimators[i][k] is fitted on the columns
\* of training window i and on the train indices of fold k
GridByCell(g, epochs) ==
    /\ PyLen(g["estimators"]) = PyLen(g["train_times"]["slices"])
    /\ \A i \in DOMAIN g["estimators"] :
        /\ PyLen(g["estimators"][i]) = PyLen(g["cv"].folds)
        /\ \A k \in DOMAIN g["estimators"][i] :
               g["estimators"][i][k] =
                   Fitted(g["clf"], epochs.id, g["train_times"]["slices"][i],
                          g["cv"].folds[k].train, g["y_train"])

\* C28: whatever n_jobs is, fit ends as it ends with n_jobs = 1 and leaves
\* the same object; the grid it leaves has one list of per-fold classifiers
\* per training window, in the order of the windows
C28_PartitionIndependent ==
    [][last'.op = "fit" =>
          /\ last'.raised = fit(gat, last'.epochs[1], None, 1).raised
          /\ gat' = fit(gat, last'.epochs[1], None, 1).gat
          /\ last'.raised = "none" => GridByCell(gat', last'.epochs[1])]_vars

\* the part of C28 about the fits that return
C28_GridByCell ==
    (last.op = "fit" /\ last.raised = "none") => GridByCell(gat, last.epochs[1])


\* ---- two objects, and the dicts their train_times attributes refer to
\* the dict object that is the default value of the argument train_times of
\* __init__ (line 66): made once, when the function is defined
DefaultDict == 0
\* the dict object a caller passes to the constructor of object o
OwnDict(o) == o + 1

\* GeneralizationAcrossTime(cv=2, train_times=...): self.train_times is the
\* dict object passed (line 73), not a copy; given is what it held then
Orchestrator(ref, given) ==
    [train_times |-> ref, given |-> given,
     obj |-> DictDel(Construct(IntCv(2), 0, given), "train_times")]

InitShared ==
    /\ \E a \in {DefaultDict, OwnDict(0)}, b \in {DefaultDict, OwnDict(1)},
          d \in TrainTimesChoices :
         /\ frame = List(3, LAMBDA ref : IF ref = DefaultDict THEN EmptyDict ELSE d)
         /\ gat = List(2, LAMBDA o : IF o = 0 THEN Orchestrator(a, frame[a])
                                      ELSE Orchestrator(b, frame[b]))
    /\ last = [op |-> "__init__", object |-> 0, epochs |-> None,
               raised |-> "none", slices |-> EmptyList]

\* gat[o].fit(epochs): the planner fills the dict self.train_times refers to
\* (lines 125-130, 565-572), in place
SharedFit ==
    \E o \in DOMAIN gat, epochs \in Datasets :
    \E out \in {fit(DictSet(gat[o].obj, "train_times", frame[gat[o].train_times]),
                     epochs, None, 1)} :
        /\ frame' = [frame EXCEPT ![gat[o].train_times] = out.gat["train_times"]]
        /\ gat' = [gat EXCEPT ![o].obj = DictDel(out.gat, "train_times")]
        /\ last' = [op |-> "fit", object |-> o, epochs |-> Some(epochs),
                    raised |-> out.raised,
                    slices |-> IF "slices" \in DOMAIN out.gat["train_times"]
                               THEN out.gat["train_times"]["slices"]
                               ELSE EmptyList]

NextShared == SharedFit

SpecShared == InitShared /\ [][NextShared]_vars

\* the fit of a new object constructed with the configuration `given`
FirstFit(given, epochs) == fit(Construct(IntCv(2), 0, given), epochs, None, 1)

\* C29: a fit ends, and realizes the training windows, as the first fit of a
\* new object with the same configuration does on the same dataset: neither
\* earlier fits of the object nor fits of the other object change it
C29_HistoryIndependent ==
    last.op = "fit" =>
        With(FirstFit(gat[last.object].given, last.epochs[1]), LAMBDA new :
            /\ last.raised = new.raised
            /\ last.raised = "none" =>
                   last.slices = new.gat["train_times"]["slices"])


====
